---- MODULE Spec2Model ----
(***************************************************************************)
(* Model of solver.py, the brute-force solver for "The Ultimate Puzzle".   *)
(*                                                                         *)
(* Encoding.  An edge symbol is the position of its letter in the Latin    *)
(* alphabet ('A' = 1, 'B' = 2, ... 'H' = 8, 'Z' = 26), so the order of the  *)
(* integers is the order Python gives the one-character strings.  A piece  *)
(* is the 4-tuple <<north, east, south, west>> of its symbols ("AACC" is   *)
(* <<1,1,3,3>>), the empty cell '_' is the empty tuple, a board is the     *)
(* tuple of its rows and a row the tuple of its cells.  Coordinates x, y   *)
(* are 0-based as in the source; tuples are 1-based, so board[y][x] of the *)
(* source is board[y+1][x+1] here.  Python's None is the empty tuple.      *)
(***************************************************************************)
EXTENDS Integers, Sequences, FiniteSets, TLC

VARIABLES
    rows, cols,     \* shape of start_board (main builds rows x cols '_')
    input_pieces,   \* the piece descriptions handed to main
    order,          \* "dfs": line 209 active, "bfs": line 210 active
    pc,             \* "main", "loop", "for", "yielded" (solve suspended at
                    \* line 206), "done", "raised"; "piece" in
                    \* SpecPiece; "fits", "fitted" in SpecFits
    worklist,       \* the deque of solve, leftmost entry first
    pending,        \* children possible_moves will still yield to the for loop
    pending_err,    \* exception possible_moves raises once pending is used up
    min_board, min_pieces, n_explored,
    pieces,         \* the sorted canonical inventory solve was called with
    emitted,        \* tuples yielded by solve so far
    snapshots,      \* progress blocks printed by solve so far
    err,            \* exception that left solve, "none" if none did
    dfs_run,        \* outcome of the finished depth-first run
    wboard, wpieces,    \* the state solve took last from the worklist
    hist_inserted,  \* history: the children pushed on the worklist so far
    hist_taken,     \* history: how many states were taken from the worklist
    p, q            \* argument and result of the pure functions (SpecPiece,
                    \* SpecFits)

vars == <<rows, cols, input_pieces, order, pc, worklist, pending, pending_err,
          min_board, min_pieces, n_explored, pieces, emitted, snapshots, err,
          dfs_run, wboard, wpieces, hist_inserted, hist_taken, p, q>>

----------------------------------------------------------------------------
(* Bounds of the model *)

MaxRows == 2
MaxCols == 2
MaxPieces == 4
\* a symbol outside A..H ('Z')
OutsideSymbol == 26
\* solve is followed up to this many generated children
MaxExplored == 10100

----------------------------------------------------------------------------
(* Piece model *)

Empty == <<>>
None == <<>>

matches == [s \in 1..8 |-> IF s % 2 = 1 THEN s + 1 ELSE s - 1]

\* mutant: the shift goes the other way (N,E,S,W -> W,N,E,S)
rotate_piece_Right(piece) == <<piece[4], piece[1], piece[2], piece[3]>>

rotate_piece(piece) == <<piece[2], piece[3], piece[4], piece[1]>>

flip_piece(piece) == <<piece[1], piece[4], piece[3], piece[2]>>

\* mutant: the second side of the piece is forgotten
orientations_NoFlip(piece) ==
    LET r1 == rotate_piece(piece)
        r2 == rotate_piece(r1)
        r3 == rotate_piece(r2)
    IN  <<piece, r1, r2, r3, piece, r1, r2, r3>>

orientations(piece) ==
    LET r1 == rotate_piece(piece)
        r2 == rotate_piece(r1)
        r3 == rotate_piece(r2)
        f0 == flip_piece(piece)
        f1 == rotate_piece(f0)
        f2 == rotate_piece(f1)
        f3 == rotate_piece(f2)
    IN  <<piece, r1, r2, r3, f0, f1, f2, f3>>

\* Python's < on two strings of length 4
StrLess(a, b) ==
    \E i \in 1..4 : a[i] < b[i] /\ \A j \in 1..(i - 1) : a[j] = b[j]

RECURSIVE InsertSorted(_, _)
InsertSorted(s, e) ==
    IF s = <<>> THEN <<e>>
    ELSE IF StrLess(e, Head(s)) THEN <<e>> \o s
    ELSE <<Head(s)>> \o InsertSorted(Tail(s), e)

\* Python's sorted() on a list of pieces (stable, ascending)
RECURSIVE sorted(_)
sorted(s) ==
    IF s = <<>> THEN <<>>
    ELSE InsertSorted(sorted(SubSeq(s, 1, Len(s) - 1)), s[Len(s)])

\* mutant: the minimum is taken over the four rotations of one side only
piece_identity_OneSide(piece) == sorted(SubSeq(orientations(piece), 1, 4))[1]

piece_identity(piece) == sorted(orientations(piece))[1]

----------------------------------------------------------------------------
(* Board model *)

Cell(board, x, y) == board[y + 1][x + 1]

\* One direction of check_piece_fits: "T", "F", or "KeyError" when
\* matches[...] is looked up with a symbol that is not a key.  nx, ny is the
\* neighbour, inside says it is in the grid, mine is the candidate's edge
\* index and theirs the neighbour's facing edge index (1-based).
FitsDirection(board, piece, inside, nx, ny, mine, theirs) ==
    IF ~inside THEN "T"
    ELSE IF Cell(board, nx, ny) = Empty THEN "T"
    ELSE IF piece[mine] \notin DOMAIN matches THEN "KeyError"
    ELSE IF Cell(board, nx, ny)[theirs] = matches[piece[mine]] THEN "T"
    ELSE "F"

\* Python's short-circuit `and` over the tri-state results
AndThen(a, b) == IF a = "T" THEN b ELSE a

\* mutant: the west neighbour is not looked at
check_piece_fits_NoWest(board, piece, x, y) ==
    AndThen(FitsDirection(board, piece, y # 0, x, y - 1, 1, 3),
    AndThen(FitsDirection(board, piece, x # Len(board[y + 1]) - 1, x + 1, y, 2, 4),
            FitsDirection(board, piece, y # Len(board) - 1, x, y + 1, 3, 1)))

check_piece_fits(board, piece, x, y) ==
    AndThen(FitsDirection(board, piece, y # 0, x, y - 1, 1, 3),
    AndThen(FitsDirection(board, piece, x # Len(board[y + 1]) - 1, x + 1, y, 2, 4),
    AndThen(FitsDirection(board, piece, y # Len(board) - 1, x, y + 1, 3, 1),
            FitsDirection(board, piece, x # 0, x - 1, y, 4, 2))))

\* mutant: the first empty cell is looked for column by column
next_free_ColumnMajor(board) ==
    LET free == {c \in (0..(Len(board) - 1)) \X (0..(Len(board[1]) - 1)) :
                    Cell(board, c[2], c[1]) = Empty}
    IN  IF free = {} THEN None
        ELSE LET c == CHOOSE c \in free : \A d \in free :
                        c[2] < d[2] \/ (c[2] = d[2] /\ c[1] <= d[1])
             IN  <<c[2], c[1]>>

\* first empty cell in row-major order as <<x, y>>, None when the board is full
next_free(board) ==
    LET free == {c \in (0..(Len(board) - 1)) \X (0..(Len(board[1]) - 1)) :
                    Cell(board, c[2], c[1]) = Empty}
    IN  IF free = {} THEN None
        ELSE LET c == CHOOSE c \in free : \A d \in free :
                        c[1] < d[1] \/ (c[1] = d[1] /\ c[2] <= d[2])
             IN  <<c[2], c[1]>>

\* mutant: the first entry is removed whatever the index
RemoveAt_Head(s, i) == Tail(s)

RemoveAt(s, i) == SubSeq(s, 1, i - 1) \o SubSeq(s, i + 1, Len(s))

\* the pairs next_piece yields, in order
next_piece(ps) == [i \in 1..Len(ps) |-> <<ps[i], RemoveAt(ps, i)>>]

PlaceAt(board, x, y, piece) ==
    [board EXCEPT ![y + 1] = [board[y + 1] EXCEPT ![x + 1] = piece]]

\* The candidates possible_moves tries at cell x, y, in the order of its two
\* nested loops (piece by piece, 8 orientations each), each with the pool
\* its child would get and the outcome of check_piece_fits.
Candidates(board, ps, x, y) ==
    [k \in 1..(8 * Len(ps)) |->
        LET np    == next_piece(ps)[((k - 1) \div 8) + 1]
            piece == orientations(np[1])[((k - 1) % 8) + 1]
        IN  [piece |-> piece, rest |-> np[2],
             fit |-> check_piece_fits(board, piece, x, y)]]

\* The run of the generator possible_moves: the children it yields, and the
\* exception that ends it, if any.  `x, y = next_free(board)` raises
\* TypeError when next_free returns None; a KeyError of check_piece_fits
\* ends the generator after the children of the candidates before it.
possible_moves(board, ps) ==
    LET xy == next_free(board)
    IN  IF xy = None THEN [out |-> <<>>, err |-> "TypeError"]
        ELSE LET cands == Candidates(board, ps, xy[1], xy[2])
                 bad   == {k \in DOMAIN cands : cands[k].fit = "KeyError"}
                 stop  == IF bad = {} THEN Len(cands) + 1
                          ELSE CHOOSE k \in bad : \A j \in bad : k <= j
                 fits  == SelectSeq(SubSeq(cands, 1, stop - 1),
                                    LAMBDA c : c.fit = "T")
             IN  [out |-> [i \in DOMAIN fits |->
                            <<PlaceAt(board, xy[1], xy[2], fits[i].piece),
                              fits[i].rest>>],
                  err |-> IF bad = {} THEN "none" ELSE "KeyError"]

accept(board, ps) == Len(ps) = 0

----------------------------------------------------------------------------
(* Inputs *)

\* AACC, BACD, ABDC, BBDD (the example inventory of the spec) and ABCZ
Catalogue ==
    << <<1, 1, 3, 3>>, <<2, 1, 3, 4>>, <<1, 2, 4, 3>>, <<2, 2, 4, 4>>,
       <<1, 2, 3, OutsideSymbol>> >>

\* the catalogue entries with index in S, in catalogue order
Pick(S) ==
    LET n == Cardinality(S)
        f == CHOOSE f \in [1..n -> S] : \A i, j \in 1..n : i < j => f[i] < f[j]
    IN  [i \in 1..n |-> Catalogue[f[i]]]

Inventories ==
    {Pick(S) : S \in {T \in SUBSET (1..Len(Catalogue)) : Cardinality(T) <= MaxPieces}}

\* start_board of main for a rows x cols grid
StartBoard(r, c) == [y \in 1..r |-> [x \in 1..c |-> Empty]]

NoRun == [pc |-> "none", emitted |-> <<>>, n_explored |-> 0, err |-> "none"]

\* the history variables are not kept
NoHistory == UNCHANGED <<hist_inserted, hist_taken>>

----------------------------------------------------------------------------
(* Search engine *)

Init ==
    /\ rows \in 1..MaxRows
    /\ cols \in 1..MaxCols
    /\ input_pieces \in Inventories
    /\ order = "dfs"
    /\ pc = "main"
    /\ worklist = <<>>
    /\ pending = <<>>
    /\ pending_err = "none"
    /\ min_board = <<>>
    /\ min_pieces = <<>>
    /\ n_explored = 0
    /\ pieces = <<>>
    /\ emitted = <<>>
    /\ snapshots = <<>>
    /\ err = "none"
    /\ dfs_run = NoRun
    /\ wboard = <<>>
    /\ wpieces = <<>>
    /\ hist_inserted = <<>>
    /\ hist_taken = 0
    /\ p = <<>>
    /\ q = <<>>

\* solve, lines 194-198: the state of the generator before its first loop test
SolveStart(board, ps) ==
    /\ worklist' = <<<<board, ps>>>>
    /\ min_board' = board
    /\ min_pieces' = ps
    /\ n_explored' = 0
    /\ pending' = <<>>
    /\ pending_err' = "none"
    /\ emitted' = <<>>
    /\ snapshots' = <<>>
    /\ err' = "none"
    /\ wboard' = <<>>
    /\ wpieces' = <<>>
    /\ pc' = "loop"

\* main: canonicalise and sort the inventory, then call solve on the empty board
MainStep ==
    /\ pc = "main"
    /\ pieces' = sorted([i \in 1..Len(input_pieces) |-> piece_identity(input_pieces[i])])
    /\ SolveStart(StartBoard(rows, cols), pieces')
    /\ UNCHANGED <<rows, cols, input_pieces, order, dfs_run, p, q>>

Main == MainStep /\ NoHistory

\* where solve is after the for loop over one expansion has ended
AfterFor(wl, e) ==
    IF e # "none" THEN "raised"
    ELSE IF wl = <<>> THEN "done"
    ELSE "loop"

\* worklist.pop() and the start of the for loop over possible_moves
PopStep ==
    /\ pc = "loop"
    /\ LET w == worklist[Len(worklist)]
           m == possible_moves(w[1], w[2])
       IN  /\ worklist' = SubSeq(worklist, 1, Len(worklist) - 1)
           /\ wboard' = w[1]
           /\ wpieces' = w[2]
           /\ IF m.out = <<>>
              THEN /\ pc' = AfterFor(worklist', m.err)
                   /\ err' = m.err
                   /\ pending' = <<>>
                   /\ pending_err' = "none"
              ELSE /\ pc' = "for"
                   /\ err' = err
                   /\ pending' = m.out
                   /\ pending_err' = m.err
    /\ UNCHANGED <<rows, cols, input_pieces, order, min_board, min_pieces,
                   n_explored, pieces, emitted, snapshots, dfs_run, p, q>>

Pop == PopStep /\ NoHistory

\* mutant: the breadth-first deque holds two entries at most and drops the
\* entry at its far end when a third is pushed
Insert_Bounded(wl, state, o) ==
    IF o = "dfs" THEN Append(wl, state)
    ELSE IF Len(wl) >= 2 THEN <<state>> \o SubSeq(wl, 1, Len(wl) - 1)
    ELSE <<state>> \o wl

\* mutant: the child is pushed on the left end in both orders
Insert_Left(wl, state, o) == <<state>> \o wl

\* the worklist after line 209 (depth first) or line 210 (breadth first)
Insert(wl, state, o) ==
    IF o = "dfs" THEN Append(wl, state) ELSE <<state>> \o wl

\* the for loop moves on to the next child, or ends
NextChild(wl) ==
    /\ pending' = Tail(pending)
    /\ IF Tail(pending) = <<>>
       THEN /\ pc' = AfterFor(wl, pending_err)
            /\ err' = pending_err
            /\ pending_err' = "none"
       ELSE /\ pc' = "for"
            /\ err' = err
            /\ pending_err' = pending_err

\* mutant: the two counters of the yielded tuple change places
Yield_Swapped ==
    /\ pc = "for"
    /\ n_explored < MaxExplored
    /\ accept(Head(pending)[1], Head(pending)[2])
    /\ n_explored' = n_explored + 1
    /\ emitted' = Append(emitted, <<Head(pending)[1], Len(worklist), n_explored'>>)
    /\ pc' = "yielded"
    /\ UNCHANGED <<rows, cols, input_pieces, order, worklist, pending,
                   pending_err, min_board, min_pieces, pieces, snapshots, err,
                   dfs_run, wboard, wpieces, p, q>>
    /\ NoHistory

\* loop body for a child that accept() takes, up to the yield of line 206:
\* the tuple is handed to the consumer and solve is suspended there
YieldStep ==
    /\ pc = "for"
    /\ n_explored < MaxExplored
    /\ accept(Head(pending)[1], Head(pending)[2])
    /\ n_explored' = n_explored + 1
    /\ emitted' = Append(emitted, <<Head(pending)[1], n_explored', Len(worklist)>>)
    /\ pc' = "yielded"
    /\ UNCHANGED <<rows, cols, input_pieces, order, worklist, pending,
                   pending_err, min_board, min_pieces, pieces, snapshots, err,
                   dfs_run, wboard, wpieces, p, q>>

Yield == YieldStep /\ NoHistory

\* the consumer asks for the next tuple: solve resumes after the yield,
\* `continue` (line 207) takes the for loop to its next child or to its end
ResumeStep ==
    /\ pc = "yielded"
    /\ NextChild(worklist)
    /\ UNCHANGED <<rows, cols, input_pieces, order, worklist, min_board,
                   min_pieces, n_explored, pieces, emitted, snapshots, dfs_run,
                   wboard, wpieces, p, q>>

Resume == ResumeStep /\ NoHistory

\* sampling interval of the progress report
ReportEvery == 10000

\* mutant: only a child with strictly fewer remaining pieces is tracked
Improves_Strict(npieces, tracked) == Len(npieces) < Len(tracked)

\* the test of line 212
Improves(npieces, tracked) == Len(npieces) <= Len(tracked)

\* loop body for a child that accept() refuses: lines 203-222
EnqueueStep ==
    /\ pc = "for"
    /\ n_explored < MaxExplored
    /\ ~accept(Head(pending)[1], Head(pending)[2])
    /\ LET nboard  == Head(pending)[1]
           npieces == Head(pending)[2]
       IN  /\ n_explored' = n_explored + 1
           /\ worklist' = Insert(worklist, <<nboard, npieces>>, order)
           /\ IF Improves(npieces, min_pieces)
              THEN min_board' = nboard /\ min_pieces' = npieces
              ELSE UNCHANGED <<min_board, min_pieces>>
           /\ IF n_explored' % ReportEvery = 0
              THEN snapshots' = Append(snapshots,
                        [explored |-> n_explored', queued |-> Len(worklist'),
                         board |-> min_board', pieces |-> npieces])
              ELSE UNCHANGED snapshots
    /\ NextChild(worklist')
    /\ UNCHANGED <<rows, cols, input_pieces, order, pieces, emitted, dfs_run,
                   wboard, wpieces, p, q>>

Enqueue == EnqueueStep /\ NoHistory

\* the same root solved again with line 210 in place of line 209
RunBreadthFirstStep ==
    /\ pc \in {"done", "raised"}
    /\ order = "dfs"
    /\ order' = "bfs"
    /\ dfs_run' = [pc |-> pc, emitted |-> emitted, n_explored |-> n_explored,
                   err |-> err]
    /\ SolveStart(StartBoard(rows, cols), pieces)
    /\ UNCHANGED <<rows, cols, input_pieces, pieces, p, q>>

RunBreadthFirst == RunBreadthFirstStep /\ NoHistory

Next == Main \/ Pop \/ Yield \/ Resume \/ Enqueue \/ RunBreadthFirst

Spec == Init /\ [][Next]_vars

----------------------------------------------------------------------------
(* Long runs: roots whose search generates more children than the sampling  *)
(* interval of the progress report, solved depth first as the source is     *)
(* written and followed for MaxExplored children.                           *)

\* input_pieces of the source: EAGB CABD GCHB GEFD EADF CAHD CEFD CEBD
\* CGDB CCFD AGHF GGBD GGBF EEDH GCFH ACFF
ReferencePieces ==
    << <<5, 1, 7, 2>>, <<3, 1, 2, 4>>, <<7, 3, 8, 2>>, <<7, 5, 6, 4>>,
       <<5, 1, 4, 6>>, <<3, 1, 8, 4>>, <<3, 5, 6, 4>>, <<3, 5, 2, 4>>,
       <<3, 7, 4, 2>>, <<3, 3, 6, 4>>, <<1, 7, 8, 6>>, <<7, 7, 2, 4>>,
       <<7, 7, 2, 6>>, <<5, 5, 4, 8>>, <<7, 3, 6, 8>>, <<1, 3, 6, 6>> >>

\* ACDC CCEA AACA DCAF CAEB BDCB: on 2x3 the first report comes after 16
\* solutions
SixPieces ==
    << <<1, 3, 4, 3>>, <<3, 3, 5, 1>>, <<1, 1, 3, 1>>,
       <<4, 3, 1, 6>>, <<3, 1, 5, 2>>, <<2, 4, 3, 2>> >>

\* HDBE FDDH AFDC CHBB EBHA EDBF DCGD: on 1x7 the child that brings the
\* counter to the sampling interval is a solution
SevenPieces ==
    << <<8, 4, 2, 5>>, <<6, 4, 4, 8>>, <<1, 6, 4, 3>>, <<3, 8, 2, 2>>,
       <<5, 2, 8, 1>>, <<5, 4, 2, 6>>, <<4, 3, 7, 4>> >>

LongRoots ==
    { [rows |-> 4, cols |-> 4, input |-> ReferencePieces],
      [rows |-> 2, cols |-> 3, input |-> SixPieces],
      [rows |-> 1, cols |-> 7, input |-> SevenPieces] }

InitLong ==
    /\ \E r \in LongRoots :
            rows = r.rows /\ cols = r.cols /\ input_pieces = r.input
    /\ order = "dfs"
    /\ pc = "main"
    /\ worklist = <<>> /\ pending = <<>> /\ pending_err = "none"
    /\ min_board = <<>> /\ min_pieces = <<>> /\ n_explored = 0
    /\ pieces = <<>> /\ emitted = <<>> /\ snapshots = <<>> /\ err = "none"
    /\ dfs_run = NoRun
    /\ wboard = <<>> /\ wpieces = <<>>
    /\ hist_inserted = <<>> /\ hist_taken = 0
    /\ p = <<>> /\ q = <<>>

NextLong == Main \/ Pop \/ Yield \/ Resume \/ Enqueue

SpecLong == InitLong /\ [][NextLong]_vars

----------------------------------------------------------------------------
(* The search with its history: the same steps as Spec on small inventories, *)
(* with a record of every child pushed on the worklist and a count of the    *)
(* states taken from it.  The history is not read by any step.               *)

MaxTracked == 4

\* ABDC, ABCD, ACBD: three different pieces, each with 8 different
\* orientations; BACD is ABDC turned over
TrackedCatalogue ==
    << <<1, 2, 4, 3>>, <<1, 2, 3, 4>>, <<1, 3, 2, 4>>, <<2, 1, 3, 4>> >>

TrackedInventories ==
    {LET n == Cardinality(S)
         f == CHOOSE f \in [1..n -> S] : \A i, j \in 1..n : i < j => f[i] < f[j]
     IN  [i \in 1..n |-> TrackedCatalogue[f[i]]] :
        S \in {T \in SUBSET (1..Len(TrackedCatalogue)) : Cardinality(T) <= MaxTracked}}

InitHist ==
    /\ rows \in 1..MaxRows
    /\ cols \in 1..MaxCols
    /\ input_pieces \in TrackedInventories
    /\ order = "dfs"
    /\ pc = "main"
    /\ worklist = <<>> /\ pending = <<>> /\ pending_err = "none"
    /\ min_board = <<>> /\ min_pieces = <<>> /\ n_explored = 0
    /\ pieces = <<>> /\ emitted = <<>> /\ snapshots = <<>> /\ err = "none"
    /\ dfs_run = NoRun
    /\ wboard = <<>> /\ wpieces = <<>>
    /\ hist_inserted = <<>> /\ hist_taken = 0
    /\ p = <<>> /\ q = <<>>

PopH == PopStep /\ hist_taken' = hist_taken + 1 /\ UNCHANGED hist_inserted

EnqueueH ==
    /\ EnqueueStep
    /\ hist_inserted' = Append(hist_inserted, Head(pending))
    /\ UNCHANGED hist_taken

RunBreadthFirstH ==
    /\ RunBreadthFirstStep
    /\ hist_inserted' = <<>>
    /\ hist_taken' = 0

NextHist == Main \/ PopH \/ Yield \/ Resume \/ EnqueueH \/ RunBreadthFirstH

SpecHist == InitHist /\ [][NextHist]_vars

----------------------------------------------------------------------------
(* Piece functions on their own: every piece over the alphabet, and the     *)
(* catalogue pieces, under any sequence of rotate_piece, flip_piece and     *)
(* piece_identity.                                                          *)

AllPieces == [1..4 -> DOMAIN matches] \cup {Catalogue[i] : i \in DOMAIN Catalogue}

InitPiece ==
    /\ p \in AllPieces
    /\ q = p
    /\ pc = "piece"
    /\ rows = 0 /\ cols = 0 /\ input_pieces = <<>> /\ order = "dfs"
    /\ worklist = <<>> /\ pending = <<>> /\ pending_err = "none"
    /\ min_board = <<>> /\ min_pieces = <<>> /\ n_explored = 0
    /\ pieces = <<>> /\ emitted = <<>> /\ snapshots = <<>> /\ err = "none"
    /\ dfs_run = NoRun
    /\ wboard = <<>> /\ wpieces = <<>>
    /\ hist_inserted = <<>> /\ hist_taken = 0

PieceFrame ==
    UNCHANGED <<rows, cols, input_pieces, order, pc, worklist, pending,
                pending_err, min_board, min_pieces, n_explored, pieces, emitted,
                snapshots, err, dfs_run, wboard, wpieces, hist_inserted,
                hist_taken, p>>

Rotate == pc = "piece" /\ q' = rotate_piece(q) /\ PieceFrame

Flip == pc = "piece" /\ q' = flip_piece(q) /\ PieceFrame

Identity == pc = "piece" /\ q' = piece_identity(q) /\ PieceFrame

NextPiece == Rotate \/ Flip \/ Identity

SpecPiece == InitPiece /\ [][NextPiece]_vars

-----------------------------------------------------------------------------
(* check_piece_fits on its own: the candidate cell of a small board has each
   neighbour either empty or placed, on every side of the cell, and
   check_piece_fits is applied once. *)

FitSide == 3

\* the four directions as <<dx, dy, candidate's edge, neighbour's facing edge>>
Directions == {<<0, -1, 1, 3>>, <<1, 0, 2, 4>>, <<0, 1, 3, 1>>, <<-1, 0, 4, 2>>}

InGrid(r, c, x, y) == x \in 0..(c - 1) /\ y \in 0..(r - 1)

\* the cells next to x, y that are in an r x c grid
Adjacent(r, c, x, y) ==
    {n \in {<<x + d[1], y + d[2]>> : d \in Directions} : InGrid(r, c, n[1], n[2])}

\* what a neighbouring cell holds, and the candidate pieces
NeighbourValues == {Empty, <<1, 2, 3, 4>>, <<2, 1, 4, 3>>, <<3, 3, 1, 2>>}
FitPieces == [1..4 -> {1, 2, 3}]

InitFits ==
    /\ \E r \in 1..FitSide, c \in 1..FitSide :
        \E x \in 0..(c - 1), y \in 0..(r - 1) :
        \E f \in [Adjacent(r, c, x, y) -> NeighbourValues], piece \in FitPieces :
            p = [board |-> [i \in 1..r |-> [j \in 1..c |->
                               IF <<j - 1, i - 1>> \in DOMAIN f
                               THEN f[<<j - 1, i - 1>>] ELSE Empty]],
                 piece |-> piece, x |-> x, y |-> y]
    /\ q = "none"
    /\ pc = "fits"
    /\ rows = 0 /\ cols = 0 /\ input_pieces = <<>> /\ order = "dfs"
    /\ worklist = <<>> /\ pending = <<>> /\ pending_err = "none"
    /\ min_board = <<>> /\ min_pieces = <<>> /\ n_explored = 0
    /\ pieces = <<>> /\ emitted = <<>> /\ snapshots = <<>> /\ err = "none"
    /\ dfs_run = NoRun
    /\ wboard = <<>> /\ wpieces = <<>>
    /\ hist_inserted = <<>> /\ hist_taken = 0

Fits ==
    /\ pc = "fits"
    /\ q' = check_piece_fits(p.board, p.piece, p.x, p.y)
    /\ pc' = "fitted"
    /\ UNCHANGED <<rows, cols, input_pieces, order, worklist, pending,
                   pending_err, min_board, min_pieces, n_explored, pieces, emitted,
                   snapshots, err, dfs_run, wboard, wpieces, hist_inserted,
                   hist_taken, p>>

NextFits == Fits

SpecFits == InitFits /\ [][NextFits]_vars

----------------------------------------------------------------------------
(* Vocabulary of the properties *)

Range(s) == {s[i] : i \in DOMAIN s}

Count(s, v) == Cardinality({i \in DOMAIN s : s[i] = v})

\* every symbol of every piece is a letter A..H
InAlphabet(inv) == \A i \in DOMAIN inv : \A j \in 1..4 : inv[i][j] \in 1..8

\* b is the complement of a under the pairing A-B, C-D, E-F, G-H
Complement(a, b) ==
    /\ a \in 1..8
    /\ b \in 1..8
    /\ a # b
    /\ (a + 1) \div 2 = (b + 1) \div 2

\* the values a physical piece can show: 4 rotations of each of its 2 sides
Turned(piece, k) == [i \in 1..4 |-> piece[((i + k - 1) % 4) + 1]]
Mirrored(piece) == <<piece[1], piece[4], piece[3], piece[2]>>
Dihedral(piece) ==
    {Turned(piece, k) : k \in 0..3} \cup {Turned(Mirrored(piece), k) : k \in 0..3}

GridCells(board) == (0..(Len(board[1]) - 1)) \X (0..(Len(board) - 1))

NoEmptyCell(board) == \A c \in GridCells(board) : Cell(board, c[1], c[2]) # Empty

\* the placed pieces of a board in row-major order
RECURSIVE Flatten(_)
Flatten(board) ==
    IF board = <<>> THEN <<>>
    ELSE SelectSeq(Head(board), LAMBDA c : c # Empty) \o Flatten(Tail(board))

\* every two horizontally or vertically adjacent placed pieces touch with
\* complementary edges
EdgesMatch(board) ==
    \A c \in GridCells(board) :
        LET x == c[1]
            y == c[2]
        IN  /\ (x + 1 < Len(board[1]) /\ Cell(board, x, y) # Empty
                    /\ Cell(board, x + 1, y) # Empty)
                => Complement(Cell(board, x, y)[2], Cell(board, x + 1, y)[4])
            /\ (y + 1 < Len(board) /\ Cell(board, x, y) # Empty
                    /\ Cell(board, x, y + 1) # Empty)
                => Complement(Cell(board, x, y)[3], Cell(board, x, y + 1)[1])

EmittedBoards(em) == {em[i][1] : i \in DOMAIN em}

Finished == pc \in {"done", "raised"}

ExactCount == Len(input_pieces) = rows * cols

----------------------------------------------------------------------------
(* C1: exhaustiveness *)

\* all complete boards that use every inventory entry once, in some
\* orientation, with complementary edges wherever two pieces touch; built
\* left to right, top to bottom from the arrangements of the inventory
RECURSIVE Arrangements(_)
Arrangements(inv) ==
    IF inv = <<>> THEN {<<>>}
    ELSE UNION {{<<o>> \o rest : o \in Dihedral(inv[i]),
                                 rest \in Arrangements(RemoveAt(inv, i))} :
                i \in DOMAIN inv}

AsBoard(r, c, flat) == [y \in 1..r |-> [x \in 1..c |-> flat[(y - 1) * c + x]]]

ValidTilings(r, c, inv) ==
    {b \in {AsBoard(r, c, flat) : flat \in Arrangements(inv)} : EdgesMatch(b)}

\* C1: once solve, started on the empty board with exactly rows*cols pieces,
\* has emptied its frontier, every complete board that uses each inventory
\* piece exactly once in one of its 8 orientations and has complementary
\* edges along every adjacency has been emitted at least once.
C1_Exhaustive ==
    (pc = "done" /\ ExactCount)
        => ValidTilings(rows, cols, pieces) \subseteq EmittedBoards(emitted)

\* a finished run over an exact inventory of two pieces or more with more
\* than one valid tiling
C1_Witness ==
    /\ pc = "done"
    /\ ExactCount
    /\ rows * cols >= 2
    /\ Cardinality(EmittedBoards(emitted)) > 1

----------------------------------------------------------------------------
(* C2: soundness *)

SoundBoard(board) ==
    /\ NoEmptyCell(board)
    /\ EdgesMatch(board)
    /\ LET ids == [i \in DOMAIN Flatten(board) |-> piece_identity(Flatten(board)[i])]
       IN  \A v \in Range(ids) \cup Range(pieces) : Count(ids, v) = Count(pieces, v)

\* C2: started on the empty board with exactly rows*cols pieces, the board
\* solve emitted last (so, every board at the moment it is emitted) has no
\* empty cell, carries exactly the inventory as canonical identities, and
\* has complementary edges along every adjacency.
C2_Sound ==
    (ExactCount /\ emitted # <<>>) => SoundBoard(emitted[Len(emitted)][1])

\* a 2x2 solution has just been emitted
C2_Witness ==
    /\ ExactCount
    /\ rows = 2 /\ cols = 2
    /\ emitted # <<>>
    /\ pc \in {"for", "loop", "done"}

----------------------------------------------------------------------------
(* C3: order-independence *)

\* C3: for one root, once the breadth-first run has ended after the
\* depth-first run: if both emptied their frontier they emitted the same set
\* of boards and explored the same number of states; and for an inventory
\* over the alphabet the two runs end the same way with the same set of
\* emitted boards.
C3_OrderIndependent ==
    (order = "bfs" /\ Finished) =>
        /\ (pc = "done" /\ dfs_run.pc = "done") =>
                /\ EmittedBoards(emitted) = EmittedBoards(dfs_run.emitted)
                /\ n_explored = dfs_run.n_explored
        /\ InAlphabet(input_pieces) =>
                /\ pc = dfs_run.pc
                /\ EmittedBoards(emitted) = EmittedBoards(dfs_run.emitted)

\* both runs are over, found several boards, and emitted them in different
\* orders
C3_Witness ==
    /\ order = "bfs"
    /\ pc = "done"
    /\ dfs_run.pc = "done"
    /\ Cardinality(EmittedBoards(emitted)) > 1
    /\ [i \in DOMAIN emitted |-> emitted[i][1]]
            # [i \in DOMAIN dfs_run.emitted |-> dfs_run.emitted[i][1]]

----------------------------------------------------------------------------
(* C4: the 2x2 example *)

\* 2x2 board, inventory AACC, BACD, ABDC, BBDD
IsExample ==
    /\ rows = 2
    /\ cols = 2
    /\ input_pieces = << <<1, 1, 3, 3>>, <<2, 1, 3, 4>>, <<1, 2, 4, 3>>, <<2, 2, 4, 4>> >>

EmittedComplete ==
    \A i \in DOMAIN emitted : NoEmptyCell(emitted[i][1])

\* C4 as claimed: on the example solve yields exactly one solution board,
\* completely filled, and no other.
C4_Claimed ==
    IsExample =>
        /\ Cardinality(EmittedBoards(emitted)) <= 1
        /\ pc = "done" => Len(emitted) = 1 /\ EmittedComplete

\* C4 amended: on the example (canonicalised to AACC, ABDC, ABDC, BBDD) solve
\* yields 640 solution tuples showing 80 distinct boards; each has all four
\* cells filled and was emitted with an empty pool, after 1920 explored
\* states in all.
C4_Example ==
    (IsExample /\ pc = "done") =>
        /\ Len(emitted) = 640
        /\ Cardinality(EmittedBoards(emitted)) = 80
        /\ EmittedComplete
        /\ \A i \in DOMAIN emitted : Len(Flatten(emitted[i][1])) = Len(pieces)
        /\ n_explored = 1920

C4_Witness == IsExample /\ pc = "done" /\ pieces[2] = pieces[3]

----------------------------------------------------------------------------
(* C5: no error on any shape and inventory *)

\* C5 as claimed, for inventories over the alphabet: no exception leaves
\* solve, and no state taken from the frontier has a full board.
C5_NoError ==
    InAlphabet(input_pieces) => (err = "none" /\ pc # "raised")

----------------------------------------------------------------------------
(* C6: count mismatch *)

\* C6 as claimed: with an inventory whose size differs from rows*cols solve
\* emits nothing, in particular no board with an empty cell.
C6_NoSolutionOnMismatch ==
    ~ExactCount => emitted = <<>>

----------------------------------------------------------------------------
(* C7: symbols outside the alphabet *)

\* C7 as claimed: with a piece that has a symbol outside A..H in the input,
\* the program never gets past loading: no state is expanded, no piece
\* placed, nothing emitted.
C7_RejectedAtLoad ==
    ~InAlphabet(input_pieces) =>
        /\ pc \in {"main", "raised"}
        /\ n_explored = 0
        /\ emitted = <<>>

----------------------------------------------------------------------------
(* C8: counter monotonicity *)

\* C8: the explored-state count does not decrease from one emitted tuple to
\* the next, and in every emitted tuple and every progress snapshot the
\* frontier size reported is at most the explored-state count reported.
C8_Counters ==
    /\ \A i \in DOMAIN emitted :
            /\ emitted[i][3] <= emitted[i][2]
            /\ i > 1 => emitted[i - 1][2] <= emitted[i][2]
    /\ \A i \in DOMAIN snapshots : snapshots[i].queued <= snapshots[i].explored


\* the first progress snapshot has been printed and solutions were emitted
\* before it
C8_Witness ==
    /\ snapshots # <<>>
    /\ snapshots[1].queued > 0
    /\ Len(emitted) >= 2
    /\ emitted[1][3] > 0
    /\ emitted[1][2] < emitted[2][2]

----------------------------------------------------------------------------
(* C9: canonical stability *)

\* C9: q being any value reached from the piece p by rotate_piece, flip_piece
\* and piece_identity, piece_identity(q) is piece_identity(p); it is a fixed
\* point of piece_identity; it is the identity of each of the 8 orientations
\* of q; and the orientations of rotate_piece(q) and of flip_piece(q) are, as
\* a set, the orientations of q.
C9_CanonicalStable ==
    pc = "piece" =>
        /\ piece_identity(q) = piece_identity(p)
        /\ piece_identity(piece_identity(q)) = piece_identity(q)
        /\ \A i \in 1..8 : piece_identity(orientations(q)[i]) = piece_identity(q)
        /\ Range(orientations(rotate_piece(q))) = Range(orientations(q))
        /\ Range(orientations(flip_piece(q))) = Range(orientations(q))

\* piece_identity has turned p into a value that only the other side of p
\* shows
C9_Witness ==
    /\ pc = "piece"
    /\ q = piece_identity(p)
    /\ q \notin {Turned(p, k) : k \in 0..3}

----------------------------------------------------------------------------
(* C10: orientation closure *)

\* C10: rotate_piece is the cyclic left shift, flip_piece swaps east and
\* west, orientations(q) is the 8-tuple <<q, r q, r r q, r r r q, f q, r f q,
\* r r f q, r r r f q>> whatever values coincide, four rotations give back q
\* and so do two flips.
C10_OrientationClosure ==
    pc = "piece" =>
        /\ rotate_piece(q) = Turned(q, 1)
        /\ flip_piece(q) = Mirrored(q)
        /\ Len(orientations(q)) = 8
        /\ orientations(q) =
                <<q, Turned(q, 1), Turned(q, 2), Turned(q, 3), Mirrored(q),
                  Turned(Mirrored(q), 1), Turned(Mirrored(q), 2),
                  Turned(Mirrored(q), 3)>>
        /\ rotate_piece(rotate_piece(rotate_piece(rotate_piece(q)))) = q
        /\ flip_piece(flip_piece(q)) = q

\* a rotated piece whose 8 orientations show fewer than 8 values
C10_Witness ==
    /\ pc = "piece"
    /\ q = rotate_piece(p)
    /\ q # p
    /\ Cardinality(Range(orientations(q))) < 8

\* the placed neighbours of the candidate cell, as <<candidate's edge, facing
\* edge of the neighbour>>
PlacedNeighbourEdges(board, piece, x, y) ==
    {<<piece[d[3]], Cell(board, x + d[1], y + d[2])[d[4]]>> :
        d \in {e \in Directions :
                  /\ InGrid(Len(board), Len(board[1]), x + e[1], y + e[2])
                  /\ Cell(board, x + e[1], y + e[2]) # Empty}}

\* C11: check_piece_fits answers true exactly when, for every direction whose
\* neighbour is in the grid and placed, the neighbour's facing edge (south of
\* the north neighbour, west of the east one, north of the south one, east of
\* the west one) is the complement of the candidate's edge in that direction;
\* boundaries and empty neighbours never reject; and the answer is the same
\* when the complement is taken of the neighbour's edge instead.
C11_FitsIffComplementary ==
    pc = "fitted" =>
        LET e == PlacedNeighbourEdges(p.board, p.piece, p.x, p.y)
        IN  /\ q \in {"T", "F"}
            /\ (q = "T") <=> (\A n \in e : Complement(n[1], n[2]))
            /\ (q = "T") <=> (\A n \in e : matches[n[2]] = n[1])
            /\ e = {} => q = "T"

\* a piece that fits between placed neighbours on all four sides
C11_Witness ==
    /\ pc = "fitted"
    /\ q = "T"
    /\ Cardinality(Adjacent(Len(p.board), Len(p.board[1]), p.x, p.y)) = 4
    /\ \A n \in Adjacent(Len(p.board), Len(p.board[1]), p.x, p.y) :
           Cell(p.board, n[1], n[2]) # Empty

\* C12: in every progress snapshot the remaining pool that is reported is the
\* pool stored with the best-progress tracker, whose board is reported in the
\* same snapshot.
C12_ReportedPoolIsTracked ==
    (snapshots # <<>> /\ snapshots[Len(snapshots)].explored = n_explored) =>
        /\ snapshots[Len(snapshots)].board = min_board
        /\ snapshots[Len(snapshots)].pieces = min_pieces

\* C13: a snapshot is produced every time the explored counter reaches a
\* multiple of the sampling interval, whatever the kind of child that brought
\* it there, a solution child included.
C13_SnapshotAtEveryMultiple ==
    /\ Len(snapshots) = n_explored \div ReportEvery
    /\ \A i \in DOMAIN snapshots : snapshots[i].explored = i * ReportEvery

\* the best-progress tracker
Tracker == <<min_board, min_pieces>>

\* C14 as stated: while a state is expanded the tracker is replaced only by a
\* child with strictly fewer remaining pieces than the tracked state; a tie
\* keeps the earlier state.
C14_Claimed ==
    [][(pc = "for" /\ Tracker' # Tracker) => Len(min_pieces') < Len(min_pieces)]_vars

\* C14: the tracker is replaced by a newly inserted child exactly when the
\* child has at most as many remaining pieces as the tracked state, and it
\* then holds that child's board and pool: on a tie the later child replaces
\* the earlier one.  A solution child and a child with more remaining pieces
\* leave it as it is.
C14_TieReplaces ==
    [][pc = "for" =>
        LET child == Head(pending)
        IN  IF child[2] # <<>> /\ Len(child[2]) <= Len(min_pieces)
            THEN Tracker' = child
            ELSE Tracker' = Tracker]_vars

\* the tracker holds the newest child while an older child with as many
\* remaining pieces, tracked before it, still waits
C14_Witness ==
    /\ order = "dfs"
    /\ pc \in {"for", "loop"}
    /\ Len(worklist) >= 2
    /\ worklist[Len(worklist)] = Tracker
    /\ Len(worklist[Len(worklist) - 1][2]) = Len(min_pieces)

\* C15: the tracker breaks ties last-wins.  Once a non-solution child has
\* been inserted, the tracker holds the most recently inserted non-solution
\* child whose remaining count is at most that of every non-solution child
\* inserted before it, so its count is the minimum over all non-solution
\* children generated so far.
C15_LastWins ==
    hist_inserted # <<>> =>
        LET n == Len(hist_inserted)
            left(i) == Len(hist_inserted[i][2])
        IN  \E i \in 1..n :
                /\ Tracker = hist_inserted[i]
                \* at most as many pieces left as every child before it
                /\ \A j \in 1..(i - 1) : left(i) <= left(j)
                \* no later child is: each has more left than this one
                /\ \A k \in (i + 1)..n : left(k) > left(i)

\* the tracked child was followed by children with more pieces left and had
\* tied with an earlier child
C15_Witness ==
    /\ Len(hist_inserted) >= 3
    /\ \E i \in 2..(Len(hist_inserted) - 1) :
        /\ Tracker = hist_inserted[i]
        /\ \E j \in 1..(i - 1) : Len(hist_inserted[j][2]) = Len(min_pieces)
        /\ Len(hist_inserted[Len(hist_inserted)][2]) > Len(min_pieces)

\* C16: the frontier starts as exactly the root state.  A child with an empty
\* pool is emitted at once and never inserted.  At every point the frontier
\* size is 1 + (non-solution children generated) - (states taken for
\* expansion), and the explored counter is (solutions emitted) +
\* (non-solution children inserted): it grows by one per generated child.
C16_FrontierAccounting ==
    pc # "main" =>
        /\ hist_taken = 0 => worklist = << <<StartBoard(rows, cols), pieces>> >>
        /\ \A i \in DOMAIN hist_inserted : hist_inserted[i][2] # <<>>
        /\ \A i \in DOMAIN worklist :
               worklist[i][2] = <<>> => worklist[i] = <<StartBoard(rows, cols), pieces>>
        /\ Len(worklist) = 1 + Len(hist_inserted) - hist_taken
        /\ n_explored = Len(emitted) + Len(hist_inserted)

\* solutions were emitted and children inserted while states still wait
C16_Witness ==
    /\ pc = "for"
    /\ Len(emitted) >= 2
    /\ Len(hist_inserted) >= 3
    /\ hist_taken >= 3
    /\ Len(worklist) >= 2

\* every piece of the inventory has 8 different orientations and no two
\* pieces are the same piece
AllDistinct(inv) ==
    /\ \A i \in DOMAIN inv : Cardinality(Dihedral(inv[i])) = 8
    /\ \A i, j \in DOMAIN inv : i # j => inv[j] \notin Dihedral(inv[i])

\* C20: solve emits a board more than once only if two pieces of the
\* inventory have the same canonical identity or a piece has fewer than 8
\* different orientations.  When the identities are pairwise different and
\* every piece has 8 different orientations, no board is emitted twice and no
\* (board, pool) state is inserted into the frontier twice.
C20_NoDuplicates ==
    AllDistinct(input_pieces) =>
        /\ Cardinality(EmittedBoards(emitted)) = Len(emitted)
        /\ Cardinality(Range(hist_inserted)) = Len(hist_inserted)

\* a finished run on three different pieces that emitted several boards
C20_Witness ==
    /\ AllDistinct(input_pieces)
    /\ Len(input_pieces) >= 3
    /\ pc = "done"
    /\ Len(emitted) >= 2
    /\ Len(hist_inserted) >= 2

\* the n-th cell of the board in row-major order (n from 1), as <<x, y>>
NthCell(board, n) == <<(n - 1) % Len(board[1]), (n - 1) \div Len(board[1])>>

\* exactly the first k cells in row-major order hold a piece, next_free
\* returns the cell after them (None when there is none), and the placed
\* pieces under their canonical identities together with the pool are the
\* inventory as a multiset
RowMajorFilled(board, pool) ==
    LET k == Len(pieces) - Len(pool)
        size == Len(board) * Len(board[1])
        placed == Flatten(board)
    IN  /\ k \in 0..size
        /\ \A n \in 1..size :
               (Cell(board, NthCell(board, n)[1], NthCell(board, n)[2]) # Empty)
                    <=> n <= k
        /\ next_free(board) = IF k < size THEN NthCell(board, k + 1) ELSE None
        /\ sorted([i \in DOMAIN placed |-> piece_identity(placed[i])] \o pool)
                = sorted(pieces)

\* C17: in every state reachable from the empty root, whether it waits in
\* the frontier, is being expanded, or has been emitted, the filled cells are
\* exactly the first k cells in row-major order, k being the inventory size
\* minus the pool size; next_free returns the (k+1)-th cell; and the
\* canonical identities of the placed pieces together with the pool are the
\* inventory's multiset.  Looked at are the two ends of the frontier (the
\* state inserted last, at either end, and the state taken next), the state
\* being expanded and the board emitted last: every frontier state at the
\* moment it is inserted, every emitted board at the moment it is emitted.
C17_RowMajorFill ==
    pc # "main" =>
        /\ \A i \in {1, Len(worklist)} \cap DOMAIN worklist :
               RowMajorFilled(worklist[i][1], worklist[i][2])
        /\ wboard # <<>> => RowMajorFilled(wboard, wpieces)
        /\ emitted # <<>> => RowMajorFilled(emitted[Len(emitted)][1], <<>>)

\* a 2x2 run with a partly filled board waiting, another being expanded and
\* a solution emitted
C17_Witness ==
    /\ rows = 2 /\ cols = 2
    /\ pc = "for"
    /\ emitted # <<>>
    /\ Len(wpieces) = 2
    /\ \E i \in DOMAIN worklist : Len(worklist[i][2]) \in 1..3

\* s without its i-th entry, the order of the others kept
Without(s, i) == [j \in 1..(Len(s) - 1) |-> IF j < i THEN s[j] ELSE s[j + 1]]

\* child is parent with one piece put on the next free cell, which was
\* empty, every other cell as it was, and that piece's entry taken out of
\* the pool, the other entries in their order
OneMoveFrom(child, parent) ==
    LET xy == next_free(parent[1])
    IN  /\ xy # None
        /\ Cell(parent[1], xy[1], xy[2]) = Empty
        /\ Cell(child[1], xy[1], xy[2]) # Empty
        /\ \A c \in GridCells(parent[1]) :
               c # xy => Cell(child[1], c[1], c[2]) = Cell(parent[1], c[1], c[2])
        /\ \E i \in DOMAIN parent[2] :
               /\ child[2] = Without(parent[2], i)
               /\ parent[2][i] \in Dihedral(Cell(child[1], xy[1], xy[2]))

\* C18: expanding a state leaves the parent's board and pool, every other
\* state still in the frontier and every board already emitted unchanged;
\* each child differs from its parent in exactly one cell, the next free
\* cell, which goes from empty to the placed piece, and in the removal of
\* exactly one pool entry, the order of the rest preserved.
C18_ExpansionFrame ==
    [][/\ pc = "loop" =>
            /\ worklist # <<>>
            /\ \E i \in DOMAIN worklist :
                   /\ <<wboard', wpieces'>> = worklist[i]
                   /\ worklist' = Without(worklist, i)
            /\ emitted' = emitted
            /\ \A k \in DOMAIN pending' :
                   OneMoveFrom(pending'[k], <<wboard', wpieces'>>)
       /\ pc = "for" =>
            /\ <<wboard', wpieces'>> = <<wboard, wpieces>>
            /\ OneMoveFrom(Head(pending), <<wboard, wpieces>>)
            /\ IF Head(pending)[2] = <<>>
               THEN /\ worklist' = worklist
                    /\ pending' = pending
                    /\ Len(emitted') = Len(emitted) + 1
                    /\ emitted'[Len(emitted')][1] = Head(pending)[1]
               ELSE /\ emitted' = emitted
                    /\ pending' = Tail(pending)
                    /\ \E i \in DOMAIN worklist' :
                           /\ worklist'[i] = Head(pending)
                           /\ Without(worklist', i) = worklist
            /\ \A i \in DOMAIN emitted : emitted'[i] = emitted[i]
       /\ pc = "yielded" =>
            /\ <<wboard', wpieces'>> = <<wboard, wpieces>>
            /\ worklist' = worklist
            /\ emitted' = emitted
            /\ pending' = Tail(pending)]_vars

\* a 2x2 state with a placed piece is being expanded and has several
\* children, while other states wait and a board has been emitted
C18_Witness ==
    /\ rows = 2 /\ cols = 2
    /\ pc = "for"
    /\ Len(pending) >= 2
    /\ Len(wpieces) \in 1..(Len(pieces) - 1)
    /\ worklist # <<>>
    /\ emitted # <<>>

\* two boards with the same number of placed pieces agree on every cell
\* except the one filled last
Siblings(a, b) ==
    LET last == NthCell(a[1], Len(pieces) - Len(a[2]))
    IN  \A c \in GridCells(a[1]) :
            c # last => Cell(a[1], c[1], c[2]) = Cell(b[1], c[1], c[2])

\* C19: under depth-first order the pool sizes of the frontier entries are
\* non-increasing from the oldest entry to the newest, so the state taken
\* for expansion (the newest) has the fewest remaining pieces of all
\* entries, and all entries with the same pool size are children of one
\* parent: their boards agree on every cell except the last filled one.
C19_DepthFirstLayers ==
    (order = "dfs" /\ pc # "main") =>
        /\ \A i \in 1..(Len(worklist) - 1) :
               Len(worklist[i][2]) >= Len(worklist[i + 1][2])
        /\ \A i \in DOMAIN worklist :
               Len(worklist[Len(worklist)][2]) <= Len(worklist[i][2])
        /\ \A i, j \in DOMAIN worklist :
               (i < j /\ Len(worklist[i][2]) = Len(worklist[j][2]))
                    => Siblings(worklist[i], worklist[j])

\* a depth-first frontier of 2x2 with entries of three pool sizes, two of
\* them with several entries
C19_Witness ==
    /\ order = "dfs"
    /\ rows = 2 /\ cols = 2
    /\ pc = "loop"
    /\ \E i, j, k \in DOMAIN worklist :
           /\ i + 1 < j /\ j + 1 < k
           /\ Len(worklist[i][2]) = Len(worklist[i + 1][2])
           /\ Len(worklist[i + 1][2]) > Len(worklist[j][2])
           /\ Len(worklist[j][2]) = Len(worklist[j + 1][2])
           /\ Len(worklist[j + 1][2]) > Len(worklist[k][2])

====
